---- MODULE Spec2Model ----
(***************************************************************************)
(* A model of InspectorEngine (src/inspector.py): the finding harvester    *)
(* pull_list_finding with its CVE test and feed enrichment, the report     *)
(* writer genearte_report, subscribe_to_event, create_assessment_target    *)
(* and get_rulepackagearns, together with the remote services they call.   *)
(*                                                                         *)
(* Python values: None is the empty tuple and any other optional value v   *)
(* is the one-element tuple <<v>>.  A str that the code inspects character *)
(* by character (a finding id) is a tuple of one-character strings.        *)
(* The engine is single threaded: one behaviour is one method call.        *)
(***************************************************************************)
EXTENDS Naturals, Sequences, FiniteSets

VARIABLES
    pc,                 \* position of the running method
    op,                 \* the method that was called
    args,               \* its arguments
    nexttoken,          \* pull_list_finding: local nexttoken
    findingArn,         \* pull_list_finding: local findingArn
    findings,           \* pull_list_finding: local findings (describe response)
    idx,                \* pull_list_finding: position of the for loop
    data,               \* pull_list_finding: local data
    trace,              \* the remote calls issued so far, with their answers
    feedSvc,            \* what the feed endpoint answers during this call
    file,               \* the file at reportfile: None when it does not exist
    fileAtCall,         \* the report file as it was when the method was called
    fileLog,            \* the operations issued on the report file
    result,             \* the value returned to the caller
    error,              \* the exception that reached the caller
    subscriptions,      \* remote service: event subscriptions registered
    resourceGroups,     \* remote service: resource groups created
    assessmentTargets,  \* remote service: assessment targets created
    resourcegroup_arn,  \* create_assessment_target: local resourcegroup_arn
    cveInput,           \* the string under the CVE test
    cveResult           \* the outcome of the CVE test

vars == <<pc, op, args, nexttoken, findingArn, findings, idx, data, trace,
          feedSvc, file, fileAtCall, fileLog, result, error, subscriptions,
          resourceGroups, assessmentTargets, resourcegroup_arn, cveInput, cveResult>>

harvestVars == <<nexttoken, findingArn, findings, idx, data, feedSvc>>
fileVars == <<file, fileAtCall, fileLog>>
remoteVars == <<subscriptions, resourceGroups, assessmentTargets, resourcegroup_arn>>
cveVars == <<cveInput, cveResult>>

None == << >>
Some(v) == <<v>>

\* Bound of the model: the findings on one page.
MaxFindings == 2

(***************************************************************************)
(* The CVE test: re.match of                                               *)
(*   ^(CVE-(1999|2\d{3})-(0\d{2}[1-9]|[1-9]\d{3,}))$                       *)
(***************************************************************************)
Digits == {"0", "1", "2", "3", "4", "5", "6", "7", "8", "9"}
NonZeroDigits == Digits \ {"0"}

\* (1999|2\d{3})
YearMatch(y) ==
    \/ y = <<"1", "9", "9", "9">>
    \/ /\ Len(y) = 4
       /\ y[1] = "2"
       /\ \A i \in 2..4 : y[i] \in Digits

\* (0\d{2}[1-9]|[1-9]\d{3,})
SequenceMatch(q) ==
    \/ /\ Len(q) = 4
       /\ q[1] = "0"
       /\ q[2] \in Digits
       /\ q[3] \in Digits
       /\ q[4] \in NonZeroDigits
    \/ /\ Len(q) >= 4
       /\ q[1] \in NonZeroDigits
       /\ \A i \in 2..Len(q) : q[i] \in Digits

\* the pattern between ^ and $ against the whole of s
BodyMatch(s) ==
    /\ Len(s) >= 13
    /\ SubSeq(s, 1, 4) = <<"C", "V", "E", "-">>
    /\ YearMatch(SubSeq(s, 5, 8))
    /\ s[9] = "-"
    /\ SequenceMatch(SubSeq(s, 10, Len(s)))

\* re.match(cvepattern, s): ^ is the start of s, and $ is the end of s or the
\* position just before a newline that ends s
CveMatch(s) ==
    \/ BodyMatch(s)
    \/ /\ Len(s) >= 1
       /\ s[Len(s)] = "\n"
       /\ BodyMatch(SubSeq(s, 1, Len(s) - 1))

\* The strings put to the test.
Heads == { << >>, <<"X">> }
Prefixes == { <<"C", "V", "E", "-">>, <<"c", "v", "e", "-">>, <<"X", "Y", "Z", "-">> }
Years == { <<"1", "9", "9", "8">>, <<"1", "9", "9", "9">>, <<"2", "0", "0", "0">>,
           <<"2", "0", "1", "4">>, <<"2", "0", "2", "1">>, <<"3", "0", "0", "0">> }
SequenceNumbers ==
    { <<"0", "0", "0", "1">>, <<"0", "0", "2", "1">>, <<"0", "0", "2", "0">>,
      <<"0", "0", "0", "0">>, <<"0", "1", "2">>, <<"0", "0", "1", "0">>,
      <<"1", "2", "3", "4">>, <<"1", "0", "0", "0">>, <<"1", "2", "3", "4", "5">>,
      <<"0", "1", "2", "3", "4">>, <<"1", "2", "a", "4">>, <<"0", "1", "6", "0">> }
Tails == { << >>, <<"\n">>, <<"x">> }
CveInputs ==
    { h \o p \o y \o <<"-">> \o q \o t :
        h \in Heads, p \in Prefixes, y \in Years, q \in SequenceNumbers, t \in Tails }

CVE_2021_12345 == <<"C", "V", "E", "-", "2", "0", "2", "1", "-", "1", "2", "3", "4", "5">>
CVE_1999_0021 == <<"C", "V", "E", "-", "1", "9", "9", "9", "-", "0", "0", "2", "1">>
CVE_1998_0001 == <<"C", "V", "E", "-", "1", "9", "9", "8", "-", "0", "0", "0", "1">>
cve_2021_1234 == <<"c", "v", "e", "-", "2", "0", "2", "1", "-", "1", "2", "3", "4">>
XYZ_2021_1234 == <<"X", "Y", "Z", "-", "2", "0", "2", "1", "-", "1", "2", "3", "4">>
CVE_2021_012 == <<"C", "V", "E", "-", "2", "0", "2", "1", "-", "0", "1", "2">>


(***************************************************************************)
(* The remote assessment service and the feed endpoint, as seen by         *)
(* pull_list_finding.                                                      *)
(***************************************************************************)
\* the pagination tokens the service hands out: a token is a non-empty string
\* and names one further page, so the service hands each out once
Tokens == { Some("t1"), Some("t2") }

FindingArns == { "arn:finding/1", "arn:finding/2" }

\* the findings the service holds, by ARN: one whose id is no CVE identifier
\* and one whose id is; each carries the fields the method reads and more
FindingStore ==
    [a \in FindingArns |->
        IF a = "arn:finding/1"
        THEN [arn |-> a, id |-> XYZ_2021_1234, title |-> "title-1",
              description |-> "description-1", severity |-> "Low",
              recommendation |-> "recommendation-1", numericSeverity |-> "3.0"]
        ELSE [arn |-> a, id |-> CVE_2021_12345, title |-> "title-2",
              description |-> "description-2", severity |-> "High",
              recommendation |-> "recommendation-2", numericSeverity |-> "9.0"]]

\* the findingArns lists a page may carry
RECURSIVE SeqsUpTo(_, _)
SeqsUpTo(S, n) ==
    IF n = 0 THEN { << >> }
    ELSE LET shorter == SeqsUpTo(S, n - 1)
         IN  shorter \cup { Append(q, x) : q \in shorter, x \in S }

ArnLists == SeqsUpTo(FindingArns, MaxFindings)

\* the bodies the feed endpoint may send, and what json.loads makes of them
FeedBodyText == "{\"id\":\"CVE-2021-12345\"}"
ErrorBodyText == "{\"message\":\"not found\"}"
json_loads(text) ==
    CASE text = FeedBodyText -> [raises |-> "", value |-> Some([id |-> CVE_2021_12345])]
      [] text = ErrorBodyText -> [raises |-> "", value |-> Some([message |-> "not found"])]
      [] OTHER -> [raises |-> "JSONDecodeError", value |-> None]

\* the feed endpoint during one call: it answers every GET with one response,
\* or the request fails in transport and requests.get raises
FeedServices ==
    { [kind |-> "response", status_code |-> 200, text |-> FeedBodyText],
      [kind |-> "response", status_code |-> 200, text |-> "<html>"],
      [kind |-> "response", status_code |-> 404, text |-> ErrorBodyText],
      [kind |-> "response", status_code |-> 500, text |-> "<html>"],
      [kind |-> "unreachable", status_code |-> 0, text |-> ""] }

SEARCHURL == "http://cve.circl.lu/api/cve/"

\* a mutation of get_feeds: the body is parsed whatever the status
get_feeds_any_status(svc) ==
    IF svc.kind = "unreachable"
    THEN [raises |-> "ConnectionError", value |-> None]
    ELSE json_loads(svc.text)

\* get_feeds(cveid) against the endpoint svc: the exception it raises ("" when
\* it returns) and the value it returns
get_feeds(svc) ==
    IF svc.kind = "unreachable"
    THEN [raises |-> "ConnectionError", value |-> None]
    ELSE IF svc.status_code = 200
         THEN json_loads(svc.text)
         ELSE [raises |-> "", value |-> None]

(***************************************************************************)
(* pull_list_finding                                                       *)
(***************************************************************************)
report_keys == <<"title", "description", "severity", "recommendation">>

\* report = {}; for key in report_keys: report[key] = finding[key]
Report(finding) ==
    [key \in { report_keys[i] : i \in 1..Len(report_keys) } |-> finding[key]]

\* `if nexttoken:` -- None and the empty string are false
Truthy(tok) == tok # None /\ tok # Some("")

\* a mutation of the list call: the token is never sent
RequestTokenDropped(tok) == None

\* the nextToken argument of the list_findings call (None: not passed)
RequestToken(tok) == IF Truthy(tok) THEN tok ELSE None

\* the findingArns argument of the describe_findings call
DescribeRequest(arns) == arns

\* a mutation of the record: new records go to the front
AddRecordInFront(d, rec) == <<rec>> \o d

\* data.append(rec)
AddRecord(d, rec) == Append(d, rec)

\* a mutation of the branch: every finding is enriched
NeedsFeedAlways(finding_id) == TRUE

\* `if re.match(cvepattern, finding_id):`
NeedsFeed(finding_id) == CveMatch(finding_id)

ListEvents == SelectSeq(trace, LAMBDA e : e.call = "list_findings")

\* the token the service may return with its next page: one it has not
\* handed out yet, or none on the last page
PageTokens ==
    (Tokens \ { ListEvents[k].respToken : k \in 1..Len(ListEvents) }) \cup {None}

AtLoopHead ==
    \/ pc = "list"
    \/ pc = "loop" /\ idx > Len(findings) /\ Truthy(nexttoken)

StartHarvest(name, a, before, f, flog) ==
    /\ pc = "idle"
    /\ op' = name
    /\ args' = a
    /\ pc' = "list"
    /\ nexttoken' = None
    /\ data' = << >>
    /\ feedSvc' \in FeedServices
    /\ fileAtCall' = before
    /\ file' = f
    /\ fileLog' = flog
    /\ UNCHANGED <<findingArn, findings, idx, trace, result, error>>
    /\ UNCHANGED remoteVars
    /\ UNCHANGED cveVars

\* a caller invokes pull_list_finding(agentids, severities, runarns)
CallPullListFinding ==
    StartHarvest("pull_list_finding", [runarns |-> <<"arn:run/1">>], file, file, fileLog)

\* list_findings answers with a page
ListFindings ==
    /\ AtLoopHead
    /\ \E arns \in ArnLists, tok \in PageTokens :
        /\ trace' = Append(trace, [call |-> "list_findings", ok |-> TRUE,
                                   nextToken |-> RequestToken(nexttoken),
                                   respToken |-> tok, respArns |-> arns])
        /\ nexttoken' = tok
        /\ findingArn' = arns
    /\ pc' = "describe"
    /\ UNCHANGED <<op, args, findings, idx, data, feedSvc, result, error>>
    /\ UNCHANGED fileVars
    /\ UNCHANGED remoteVars
    /\ UNCHANGED cveVars

\* list_findings raises
ListFindingsFails ==
    /\ AtLoopHead
    /\ trace' = Append(trace, [call |-> "list_findings", ok |-> FALSE,
                               nextToken |-> RequestToken(nexttoken),
                               respToken |-> None, respArns |-> << >>])
    /\ pc' = "raised"
    /\ error' = "ClientError"
    /\ UNCHANGED <<op, args, result>>
    /\ UNCHANGED fileVars
    /\ UNCHANGED harvestVars
    /\ UNCHANGED remoteVars
    /\ UNCHANGED cveVars

\* describe_findings answers with the detail of the ARNs it was given
DescribeFindings ==
    /\ pc = "describe"
    /\ LET req == DescribeRequest(findingArn)
           resp == [i \in 1..Len(req) |-> FindingStore[req[i]]]
       IN  /\ trace' = Append(trace, [call |-> "describe_findings", ok |-> TRUE,
                                      findingArns |-> req, locale |-> "EN_US",
                                      respFindings |-> resp])
           /\ findings' = resp
    /\ idx' = 1
    /\ pc' = "loop"
    /\ UNCHANGED <<op, args, nexttoken, findingArn, data, feedSvc, result, error>>
    /\ UNCHANGED fileVars
    /\ UNCHANGED remoteVars
    /\ UNCHANGED cveVars

\* describe_findings raises
DescribeFindingsFails ==
    /\ pc = "describe"
    /\ trace' = Append(trace, [call |-> "describe_findings", ok |-> FALSE,
                               findingArns |-> DescribeRequest(findingArn),
                               locale |-> "EN_US", respFindings |-> << >>])
    /\ pc' = "raised"
    /\ error' = "ClientError"
    /\ UNCHANGED <<op, args, result>>
    /\ UNCHANGED fileVars
    /\ UNCHANGED harvestVars
    /\ UNCHANGED remoteVars
    /\ UNCHANGED cveVars

FeedEvent(finding_id, fetched) ==
    [call |-> "requests.get", ok |-> feedSvc.kind = "response",
     url |-> <<SEARCHURL, finding_id>>, status_code |-> feedSvc.status_code,
     raises |-> fetched.raises]

\* one round of `for finding in findings:` that appends its record
ProcessFinding ==
    /\ pc = "loop"
    /\ idx <= Len(findings)
    /\ LET finding == findings[idx]
           finding_id == finding.id
           report == Report(finding)
           fetched == get_feeds(feedSvc)
       IN  IF NeedsFeed(finding_id)
           THEN /\ fetched.raises = ""
                /\ trace' = Append(trace, FeedEvent(finding_id, fetched))
                /\ data' = AddRecord(data, [id |-> finding_id, report |-> report,
                                            feeds |-> fetched.value])
           ELSE /\ trace' = trace
                /\ data' = AddRecord(data, [id |-> finding_id, report |-> report])
    /\ idx' = idx + 1
    /\ UNCHANGED <<pc, op, args, nexttoken, findingArn, findings, feedSvc, result, error>>
    /\ UNCHANGED fileVars
    /\ UNCHANGED remoteVars
    /\ UNCHANGED cveVars

\* one round of the loop in which get_feeds raises: requests.get fails in
\* transport, or json.loads rejects the body of a 200 response
ProcessFindingRaises ==
    /\ pc = "loop"
    /\ idx <= Len(findings)
    /\ LET finding_id == findings[idx].id
           fetched == get_feeds(feedSvc)
       IN  /\ NeedsFeed(finding_id)
           /\ fetched.raises # ""
           /\ trace' = Append(trace, FeedEvent(finding_id, fetched))
           /\ error' = fetched.raises
    /\ pc' = "raised"
    /\ UNCHANGED <<op, args, result>>
    /\ UNCHANGED fileVars
    /\ UNCHANGED harvestVars
    /\ UNCHANGED remoteVars
    /\ UNCHANGED cveVars

\* `if not nexttoken: break` and `return data`, to the caller of
\* pull_list_finding or into genearte_report
ReturnData ==
    /\ pc = "loop"
    /\ idx > Len(findings)
    /\ ~Truthy(nexttoken)
    /\ IF op = "genearte_report"
       THEN pc' = "write" /\ result' = result
       ELSE pc' = "returned" /\ result' = Some(data)
    /\ UNCHANGED <<op, args, trace, error>>
    /\ UNCHANGED fileVars
    /\ UNCHANGED harvestVars
    /\ UNCHANGED remoteVars
    /\ UNCHANGED cveVars



(***************************************************************************)
(* genearte_report: json.dump of the harvested list into the report file.  *)
(* A JSON document is a tree of tagged values; an object keeps its members *)
(* in the insertion order of the dict it was dumped from.                  *)
(***************************************************************************)
JNull == [type |-> "null"]
JString(s) == [type |-> "string", value |-> s]
JObject(members) == [type |-> "object", members |-> members]
JArray(items) == [type |-> "array", items |-> items]

\* what open(reportfile, "w") leaves in the file before anything is written
EmptyText == [type |-> "empty"]

\* a report left in the file by an earlier run
OldDocument ==
    JArray(<< JObject(<< <<"id", JString(CVE_1998_0001)>>,
                         <<"report", JObject(<< <<"title", JString("old")>> >>)>> >>) >>)

\* a dict whose values are strings (the feed body of the model has one key)
DumpFlat(d) ==
    LET key == CHOOSE k \in DOMAIN d : TRUE
    IN  JObject(<< <<key, JString(d[key])>> >>)

DumpReportDict(r) ==
    JObject([i \in 1..Len(report_keys) |-> <<report_keys[i], JString(r[report_keys[i]])>>])

DumpRecord(rec) ==
    LET head == << <<"id", JString(rec.id)>>, <<"report", DumpReportDict(rec.report)>> >>
    IN  IF "feeds" \in DOMAIN rec
        THEN JObject(Append(head, <<"feeds", IF rec.feeds = None THEN JNull
                                             ELSE DumpFlat(rec.feeds[1])>>))
        ELSE JObject(head)

\* json.dump(data, rf, indent=4)
json_dump(d) == JArray([i \in 1..Len(d) |-> DumpRecord(d[i])])

\* json.load of a report file, the way back
Member(obj, key) == (CHOOSE i \in 1..Len(obj.members) : obj.members[i][1] = key)
Keys(obj) == { obj.members[i][1] : i \in 1..Len(obj.members) }
LoadFlat(obj) == [k \in Keys(obj) |-> obj.members[Member(obj, k)][2].value]
LoadMember(key, v) ==
    CASE v.type = "string" -> v.value
      [] v.type = "null" -> None
      [] key = "feeds" -> Some(LoadFlat(v))
      [] OTHER -> LoadFlat(v)
LoadRecord(obj) == [k \in Keys(obj) |-> LoadMember(k, obj.members[Member(obj, k)][2])]
json_load(doc) == [i \in 1..Len(doc.items) |-> LoadRecord(doc.items[i])]

\* the file system: the path of a report an earlier run left, and a path
\* where no file exists
FileSystem ==
    [path \in { "old-report.json", "new-report.json" } |->
        IF path = "old-report.json" THEN Some(OldDocument) ELSE None]

\* a mutation of genearte_report: the file is opened before the harvest
CallGenearteReportOpensFirst ==
    \E reportfile \in DOMAIN FileSystem :
        StartHarvest("genearte_report",
                     [runarns |-> <<"arn:run/1">>, reportfile |-> reportfile],
                     FileSystem[reportfile], Some(EmptyText), Append(fileLog, "open"))

\* a caller invokes genearte_report(agentids, severities, runarns, reportfile);
\* file is from here on the file at reportfile
CallGenearteReport ==
    \E reportfile \in DOMAIN FileSystem :
        StartHarvest("genearte_report",
                     [runarns |-> <<"arn:run/1">>, reportfile |-> reportfile],
                     FileSystem[reportfile], FileSystem[reportfile], fileLog)

\* rf = open(reportfile, "w"); json.dump(data, rf, indent=4); rf.close()
WriteReport ==
    /\ pc = "write"
    /\ file' = Some(json_dump(data))
    /\ fileLog' = fileLog \o <<"open", "dump", "close">>
    /\ pc' = "returned"
    /\ result' = None
    /\ UNCHANGED <<op, args, trace, fileAtCall, error>>
    /\ UNCHANGED harvestVars
    /\ UNCHANGED remoteVars
    /\ UNCHANGED cveVars

(***************************************************************************)
(* subscribe_to_event                                                      *)
(***************************************************************************)
TemplateArns == { "arn:template/1", "arn:template/2" }
TopicArns == { "arn:topic/1", "arn:topic/2" }

\* a mutation of the list: the fourth event type is not commented out
eventsWithFindingReported ==
    <<"ASSESSMENT_RUN_STARTED", "ASSESSMENT_RUN_COMPLETED",
      "ASSESSMENT_RUN_STATE_CHANGED", "FINDING_REPORTED">>

events ==
    <<"ASSESSMENT_RUN_STARTED", "ASSESSMENT_RUN_COMPLETED",
      "ASSESSMENT_RUN_STATE_CHANGED">>

\* a caller invokes subscribe_to_event(templatearn, topicarn)
CallSubscribeToEvent ==
    /\ pc = "idle"
    /\ \E templatearn \in TemplateArns, topicarn \in TopicArns :
        args' = [templatearn |-> templatearn, topicarn |-> topicarn]
    /\ op' = "subscribe_to_event"
    /\ idx' = 1
    /\ pc' = "subscribe"
    /\ UNCHANGED <<nexttoken, findingArn, findings, data, feedSvc, trace, result, error>>
    /\ UNCHANGED fileVars
    /\ UNCHANGED remoteVars
    /\ UNCHANGED cveVars

SubscribeCall(event, ok) ==
    [call |-> "subscribe_to_event", ok |-> ok, resourceArn |-> args.templatearn,
     event |-> event, topicArn |-> args.topicarn]

\* one round of `for event in events:` whose call the service accepts
SubscribeToEvent ==
    /\ pc = "subscribe"
    /\ idx <= Len(events)
    /\ trace' = Append(trace, SubscribeCall(events[idx], TRUE))
    /\ subscriptions' = subscriptions \cup
            { [resourceArn |-> args.templatearn, event |-> events[idx],
               topicArn |-> args.topicarn] }
    /\ idx' = idx + 1
    /\ UNCHANGED <<pc, op, args, nexttoken, findingArn, findings, data, feedSvc, result, error>>
    /\ UNCHANGED <<resourceGroups, assessmentTargets, resourcegroup_arn>>
    /\ UNCHANGED fileVars
    /\ UNCHANGED cveVars

\* one round of the loop whose call raises
SubscribeToEventFails ==
    /\ pc = "subscribe"
    /\ idx <= Len(events)
    /\ trace' = Append(trace, SubscribeCall(events[idx], FALSE))
    /\ pc' = "raised"
    /\ error' = "ClientError"
    /\ UNCHANGED <<op, args, result>>
    /\ UNCHANGED harvestVars
    /\ UNCHANGED fileVars
    /\ UNCHANGED remoteVars
    /\ UNCHANGED cveVars

\* the loop is exhausted and the method returns None
SubscribeReturns ==
    /\ pc = "subscribe"
    /\ idx > Len(events)
    /\ pc' = "returned"
    /\ result' = None
    /\ UNCHANGED <<op, args, trace, error>>
    /\ UNCHANGED harvestVars
    /\ UNCHANGED fileVars
    /\ UNCHANGED remoteVars
    /\ UNCHANGED cveVars


(***************************************************************************)
(* create_assessment_target                                                *)
(***************************************************************************)
TargetNames == { "target-a", "target-b" }
TagNames == { "scan-1", "scan-2" }
TagKeys == { "awsscan", "team" }
ResourceGroupArns == { "arn:resourcegroup/1", "arn:resourcegroup/2" }
TargetArns == { "arn:target/1", "arn:target/2" }

\* a caller invokes create_assessment_target(targetname, tagname, tagkey)
CallCreateAssessmentTarget ==
    /\ pc = "idle"
    /\ \E targetname \in TargetNames, tagname \in TagNames, tagkey \in TagKeys :
        args' = [targetname |-> targetname, tagname |-> tagname, tagkey |-> tagkey]
    /\ op' = "create_assessment_target"
    /\ pc' = "create_resource_group"
    /\ UNCHANGED <<trace, result, error>>
    /\ UNCHANGED harvestVars
    /\ UNCHANGED fileVars
    /\ UNCHANGED remoteVars
    /\ UNCHANGED cveVars

resourcegroup_tags == << [key |-> args.tagkey, value |-> args.tagname] >>

\* create_resource_group succeeds: the service creates the group and answers
\* with its ARN
CreateResourceGroup ==
    /\ pc = "create_resource_group"
    /\ \E arn \in ResourceGroupArns :
        /\ resourceGroups' = resourceGroups \cup
                { [arn |-> arn, resourceGroupTags |-> resourcegroup_tags] }
        /\ resourcegroup_arn' = Some(arn)
        /\ trace' = Append(trace, [call |-> "create_resource_group", ok |-> TRUE,
                                   resourceGroupTags |-> resourcegroup_tags,
                                   respArn |-> arn])
    /\ pc' = "create_assessment_target"
    /\ UNCHANGED <<op, args, result, error, subscriptions, assessmentTargets>>
    /\ UNCHANGED harvestVars
    /\ UNCHANGED fileVars
    /\ UNCHANGED cveVars

\* create_resource_group raises
CreateResourceGroupFails ==
    /\ pc = "create_resource_group"
    /\ trace' = Append(trace, [call |-> "create_resource_group", ok |-> FALSE,
                               resourceGroupTags |-> resourcegroup_tags,
                               respArn |-> ""])
    /\ pc' = "raised"
    /\ error' = "ClientError"
    /\ UNCHANGED <<op, args, result>>
    /\ UNCHANGED harvestVars
    /\ UNCHANGED fileVars
    /\ UNCHANGED remoteVars
    /\ UNCHANGED cveVars

TargetCall(ok, arn) ==
    [call |-> "create_assessment_target", ok |-> ok,
     assessmentTargetName |-> args.targetname,
     resourceGroupArn |-> resourcegroup_arn, respArn |-> arn]

\* create_assessment_target succeeds and its ARN is returned
CreateAssessmentTarget ==
    /\ pc = "create_assessment_target"
    /\ \E arn \in TargetArns :
        /\ assessmentTargets' = assessmentTargets \cup
                { [arn |-> arn, assessmentTargetName |-> args.targetname,
                   resourceGroupArn |-> resourcegroup_arn] }
        /\ trace' = Append(trace, TargetCall(TRUE, arn))
        /\ result' = Some(arn)
    /\ pc' = "returned"
    /\ UNCHANGED <<op, args, error, subscriptions, resourceGroups, resourcegroup_arn>>
    /\ UNCHANGED harvestVars
    /\ UNCHANGED fileVars
    /\ UNCHANGED cveVars

\* a mutation of the failure: the resource group is deleted again
CreateAssessmentTargetFailsRollsBack ==
    /\ pc = "create_assessment_target"
    /\ trace' = Append(trace, TargetCall(FALSE, ""))
    /\ resourceGroups' = { g \in resourceGroups : Some(g.arn) # resourcegroup_arn }
    /\ pc' = "raised"
    /\ error' = "ClientError"
    /\ UNCHANGED <<op, args, result, subscriptions, assessmentTargets, resourcegroup_arn>>
    /\ UNCHANGED harvestVars
    /\ UNCHANGED fileVars
    /\ UNCHANGED cveVars

\* create_assessment_target raises: nothing is cleaned up
CreateAssessmentTargetFails ==
    /\ pc = "create_assessment_target"
    /\ trace' = Append(trace, TargetCall(FALSE, ""))
    /\ pc' = "raised"
    /\ error' = "ClientError"
    /\ UNCHANGED <<op, args, result>>
    /\ UNCHANGED harvestVars
    /\ UNCHANGED fileVars
    /\ UNCHANGED remoteVars
    /\ UNCHANGED cveVars

(***************************************************************************)
(* get_rulepackagearns                                                     *)
(***************************************************************************)
\* the static table constants.RULE_MAP: region -> {rule name: ARN}, each
\* inner dict as its (name, ARN) items in insertion order
RULE_MAP ==
    [region \in { "us-east-1", "us-west-2" } |->
        IF region = "us-east-1"
        THEN << <<"CVE", "arn:aws:inspector:us-east-1:rulespackage/0-gEjTy7T7">>,
                <<"CIS", "arn:aws:inspector:us-east-1:rulespackage/0-rExsr2X8">>,
                <<"Network", "arn:aws:inspector:us-east-1:rulespackage/0-PmNV0Tcd">>,
                <<"Security", "arn:aws:inspector:us-east-1:rulespackage/0-R01qwB5Q">> >>
        ELSE << <<"CVE", "arn:aws:inspector:us-west-2:rulespackage/0-9hgA516p">>,
                <<"CIS", "arn:aws:inspector:us-west-2:rulespackage/0-H5hpSawc">> >>]

Regions == { "us-east-1", "us-west-2", "eu-west-9", "" }

\* d.get(k)
dict_get(d, k) == IF k \in DOMAIN d THEN Some(d[k]) ELSE None

\* a mutation of the lookup: RULE_MAP.get(region, {})
get_rulepackagearns_default(region) ==
    LET m == dict_get(RULE_MAP, region)
    IN  IF m = None
        THEN [raises |-> "", value |-> Some(<< >>)]
        ELSE [raises |-> "", value |-> Some([i \in 1..Len(m[1]) |-> m[1][i][2]])]

\* [value for rule, value in RULE_MAP.get(region).items()]: None has no
\* items(), so an unknown region raises AttributeError
get_rulepackagearns(region) ==
    LET m == dict_get(RULE_MAP, region)
    IN  IF m = None
        THEN [raises |-> "AttributeError", value |-> None]
        ELSE [raises |-> "", value |-> Some([i \in 1..Len(m[1]) |-> m[1][i][2]])]

\* a caller invokes get_rulepackagearns(region)
CallGetRulepackagearns ==
    /\ pc = "idle"
    /\ \E region \in Regions :
        LET r == get_rulepackagearns(region)
        IN  /\ args' = [region |-> region]
            /\ pc' = IF r.raises = "" THEN "returned" ELSE "raised"
            /\ result' = r.value
            /\ error' = r.raises
    /\ op' = "get_rulepackagearns"
    /\ UNCHANGED trace
    /\ UNCHANGED harvestVars
    /\ UNCHANGED fileVars
    /\ UNCHANGED remoteVars
    /\ UNCHANGED cveVars

(***************************************************************************)
(* The CVE test on its own.                                                *)
(***************************************************************************)
\* the branch of pull_list_finding on a finding id
Classify ==
    /\ cveResult = "untested"
    /\ cveInput \in CveInputs
    /\ cveResult' = IF NeedsFeed(cveInput) THEN "CVE" ELSE "non-CVE"
    /\ UNCHANGED <<pc, op, args, trace, result, error, cveInput>>
    /\ UNCHANGED harvestVars
    /\ UNCHANGED fileVars
    /\ UNCHANGED remoteVars

(***************************************************************************)
(* Specifications                                                          *)
(***************************************************************************)
InitEngine ==
    /\ pc = "idle"
    /\ op = "none"
    /\ args = [none |-> TRUE]
    /\ nexttoken = None
    /\ findingArn = << >>
    /\ findings = << >>
    /\ idx = 1
    /\ data = << >>
    /\ trace = << >>
    /\ feedSvc = [kind |-> "unreachable", status_code |-> 0, text |-> ""]
    /\ fileLog = << >>
    /\ result = None
    /\ error = ""
    /\ subscriptions = {}
    /\ resourceGroups = {}
    /\ assessmentTargets = {}
    /\ resourcegroup_arn = None

Init ==
    /\ InitEngine
    /\ file = None
    /\ fileAtCall = None
    /\ cveInput = << >>
    /\ cveResult = "untested"

Next ==
    \/ CallPullListFinding
    \/ CallGenearteReport
    \/ ListFindings
    \/ ListFindingsFails
    \/ DescribeFindings
    \/ DescribeFindingsFails
    \/ ProcessFinding
    \/ ProcessFindingRaises
    \/ ReturnData
    \/ WriteReport
    \/ CallSubscribeToEvent
    \/ SubscribeToEvent
    \/ SubscribeToEventFails
    \/ SubscribeReturns
    \/ CallCreateAssessmentTarget
    \/ CreateResourceGroup
    \/ CreateResourceGroupFails
    \/ CreateAssessmentTarget
    \/ CreateAssessmentTargetFails
    \/ CallGetRulepackagearns

Spec == Init /\ [][Next]_vars

\* the CVE test applied to each string of CveInputs
InitCve ==
    /\ InitEngine
    /\ file = None
    /\ fileAtCall = None
    /\ cveInput \in CveInputs
    /\ cveResult = "untested"

NextCve == Classify

SpecCve == InitCve /\ [][NextCve]_vars


(***************************************************************************)
(* Properties                                                              *)
(***************************************************************************)
Harvesting == op \in { "pull_list_finding", "genearte_report" }

\* pull_list_finding has returned its list (to its caller, or into
\* genearte_report)
PullReturned ==
    /\ Harvesting
    /\ pc \in { "returned", "write" }

RECURSIVE DescribedIn(_)
DescribedIn(t) ==
    IF t = << >> THEN << >>
    ELSE LET e == Head(t)
         IN  (IF e.call = "describe_findings" /\ e.ok THEN e.respFindings ELSE << >>)
                 \o DescribedIn(Tail(t))

\* the findings of all describe-findings responses so far, page after page
Described == DescribedIn(trace)

\* C1: the list-findings calls of one pull_list_finding chain the tokens: the
\* first call carries no token, call k carries the token that call k-1
\* returned, no call follows a page without a token, and the method returns
\* right after the first page without a token.
C1_TokenChain ==
    LET L == ListEvents
    IN  /\ Len(L) >= 1 => L[1].nextToken = None
        /\ \A k \in 2..Len(L) :
              /\ L[k - 1].ok
              /\ L[k - 1].respToken # None
              /\ L[k].nextToken = L[k - 1].respToken
        /\ PullReturned =>
              /\ Len(L) >= 1
              /\ L[Len(L)].ok
              /\ L[Len(L)].respToken = None

C1_Witness ==
    /\ op = "pull_list_finding"
    /\ pc = "returned"
    /\ Len(ListEvents) = 3
    /\ ListEvents[1].respToken = Some("t2")
    /\ ListEvents[2].nextToken = Some("t2")
    /\ ListEvents[2].respToken = Some("t1")
    /\ ListEvents[3].nextToken = Some("t1")
    /\ ListEvents[3].respToken = None

\* C2 as first stated: the returned list is the pages' records in order and
\* no finding id appears in two of its records.
C2_NoDuplicateIds ==
    (op = "pull_list_finding" /\ pc = "returned") =>
        LET described == Described
        IN
        /\ Len(result[1]) = Len(described)
        /\ \A i \in 1..Len(result[1]) : result[1][i].id = described[i].id
        /\ \A i, j \in 1..Len(result[1]) : i # j => result[1][i].id # result[1][j].id

\* C2, amended: the returned list is the concatenation of the pages' records:
\* one record per finding of each describe-findings response, pages in call
\* order and findings in response order, nothing dropped, added or merged.
C2_Concatenation ==
    /\ Harvesting =>
          LET described == Described
          IN  /\ Len(data) <= Len(described)
              /\ \A i \in 1..Len(data) :
                    /\ data[i].id = described[i].id
                    /\ data[i].report.title = described[i].title
              /\ PullReturned => Len(data) = Len(described)
    /\ (op = "pull_list_finding" /\ pc = "returned") => result = Some(data)

C2_Witness ==
    /\ op = "pull_list_finding"
    /\ pc = "returned"
    /\ Len(ListEvents) = 2
    /\ Len(result[1]) = 3
    /\ result[1][1].id = result[1][3].id
    /\ result[1][1].id # result[1][2].id

DigitSeq == <<"0", "1", "2", "3", "4", "5", "6", "7", "8", "9">>
DigitValue(c) == (CHOOSE n \in 1..Len(DigitSeq) : DigitSeq[n] = c) - 1
AllDigits(q) == \A i \in 1..Len(q) : q[i] \in Digits

RECURSIVE Number(_)
Number(q) ==
    IF q = << >> THEN 0
    ELSE 10 * Number(SubSeq(q, 1, Len(q) - 1)) + DigitValue(q[Len(q)])

\* the identifiers C3 describes: CVE-<year>-<sequence>, year from 1999
\* onward, sequence of at least 4 digits or with last three digits >= 021
ClaimedCve(s) ==
    /\ Len(s) >= 10
    /\ SubSeq(s, 1, 4) = <<"C", "V", "E", "-">>
    /\ AllDigits(SubSeq(s, 5, 8))
    /\ Number(SubSeq(s, 5, 8)) >= 1999
    /\ s[9] = "-"
    /\ LET q == SubSeq(s, 10, Len(s))
       IN  /\ AllDigits(q)
           /\ \/ Len(q) >= 4
              \/ Len(q) = 3 /\ Number(q) >= 21

\* C3: the CVE test accepts exactly the identifiers CVE-<year>-<sequence> with
\* year from 1999 onward and a sequence of at least 4 digits (or last three
\* digits >= 021), case-sensitively.
C3_AcceptsExactlyCveIds ==
    cveResult # "untested" =>
        /\ cveResult = "CVE" <=> ClaimedCve(cveInput)
        /\ cveInput \in { CVE_2021_12345, CVE_1999_0021 } => cveResult = "CVE"
        /\ cveInput \in { CVE_1998_0001, cve_2021_1234, XYZ_2021_1234, CVE_2021_012 }
              => cveResult = "non-CVE"

\* C4: every record has keys {id, report}, or {id, report, feeds} when its id
\* matches the CVE pattern; report holds exactly title, description, severity
\* and recommendation of the finding; feeds is the parsed body after a 200
\* answer and None after any other status, and the record is emitted in both
\* cases.
C4_RecordShape ==
    Harvesting =>
        LET described == Described
        IN
        /\ \A i \in 1..Len(data) :
              LET rec == data[i]
                  finding == described[i]
              IN  /\ DOMAIN rec = IF CveMatch(finding.id)
                                  THEN { "id", "report", "feeds" }
                                  ELSE { "id", "report" }
                  /\ rec.id = finding.id
                  /\ DOMAIN rec.report = { "title", "description", "severity", "recommendation" }
                  /\ \A key \in DOMAIN rec.report : rec.report[key] = finding[key]
                  /\ "feeds" \in DOMAIN rec =>
                        /\ feedSvc.kind = "response"
                        /\ feedSvc.status_code # 200 => rec.feeds = None
                        /\ (feedSvc.status_code = 200 /\ feedSvc.text = FeedBodyText)
                              => rec.feeds = Some([id |-> CVE_2021_12345])
        /\ LET answered == SelectSeq(trace, LAMBDA e :
                                /\ e.call = "requests.get"
                                /\ e.ok
                                /\ e.status_code # 200 \/ feedSvc.text = FeedBodyText)
               enriched == SelectSeq(data, LAMBDA rec : "feeds" \in DOMAIN rec)
           IN  Len(enriched) = Len(answered)

C4_Witness ==
    /\ PullReturned
    /\ feedSvc.status_code = 404
    /\ Len(data) = 2
    /\ DOMAIN data[1] = { "id", "report", "feeds" }
    /\ data[1].feeds = None
    /\ DOMAIN data[2] = { "id", "report" }

\* C5: a failed enrichment fetch, be it a non-200 answer or a transport
\* failure, raises nothing: the finding is still recorded, with null feeds.
C5_FetchErrorsAreSoft ==
    \A i \in 1..Len(trace) :
        (trace[i].call = "requests.get" /\ (~trace[i].ok \/ trace[i].status_code # 200))
            => /\ trace[i].raises = ""
               /\ Cardinality({ j \in 1..Len(data) :
                                    "feeds" \in DOMAIN data[j] /\ data[j].feeds = None })
                     = Cardinality({ j \in 1..Len(trace) : trace[j].call = "requests.get" })


SubscribeCalls == SelectSeq(trace, LAMBDA e : e.call = "subscribe_to_event")

\* C6: subscribe_to_event issues one call per event type, in the order
\* run-started, run-completed, run-state-changed, each with the given template
\* and topic; finding-reported is never subscribed; a failing call ends the
\* method with the error, no later call is issued and the earlier
\* subscriptions stay.
C6_ThreeSubscriptions ==
    LET S == SubscribeCalls
        fixed == <<"ASSESSMENT_RUN_STARTED", "ASSESSMENT_RUN_COMPLETED",
                   "ASSESSMENT_RUN_STATE_CHANGED">>
    IN  /\ Len(S) <= 3
        /\ \A k \in 1..Len(S) :
              /\ S[k].event = fixed[k]
              /\ S[k].resourceArn = args.templatearn
              /\ S[k].topicArn = args.topicarn
              /\ k < Len(S) => S[k].ok
        /\ \A sub \in subscriptions : sub.event # "FINDING_REPORTED"
        /\ (op = "subscribe_to_event" /\ pc = "returned") =>
              /\ Len(S) = 3
              /\ S[3].ok
              /\ error = ""
        /\ (op = "subscribe_to_event" /\ pc = "raised") =>
              /\ Len(S) >= 1
              /\ ~S[Len(S)].ok
              /\ error # ""
        /\ subscriptions =
              { [resourceArn |-> S[k].resourceArn, event |-> S[k].event,
                 topicArn |-> S[k].topicArn] : k \in { j \in 1..Len(S) : S[j].ok } }

C6_Witness ==
    /\ op = "subscribe_to_event"
    /\ pc = "returned"
    /\ Len(SubscribeCalls) = 3
    /\ Cardinality(subscriptions) = 3

\* C7: get_rulepackagearns returns exactly the ARNs of the region's entry of
\* the table, in insertion order, and raises for a region the table lacks,
\* returning no list.
C7_RulePackages ==
    op = "get_rulepackagearns" =>
        IF args.region \in DOMAIN RULE_MAP
        THEN /\ pc = "returned"
             /\ error = ""
             /\ result # None
             /\ Len(result[1]) = Len(RULE_MAP[args.region])
             /\ \A i \in 1..Len(result[1]) : result[1][i] = RULE_MAP[args.region][i][2]
        ELSE /\ pc = "raised"
             /\ error # ""
             /\ result = None

C7_Witness ==
    /\ op = "get_rulepackagearns"
    /\ pc = "returned"
    /\ args.region = "us-east-1"
    /\ Len(result[1]) = 4
    /\ result[1][2] = "arn:aws:inspector:us-east-1:rulespackage/0-rExsr2X8"

GroupCalls == SelectSeq(trace, LAMBDA e : e.call = "create_resource_group")
TargetCalls == SelectSeq(trace, LAMBDA e : e.call = "create_assessment_target")

\* C8: create_assessment_target creates the resource group for
\* {tagKey: tagName} first and the target bound to that group's ARN second,
\* and returns the target ARN; it fails when either call fails; the target
\* call is not issued after a failed group creation, and a failed target
\* creation leaves the created group in place.
C8_GroupThenTarget ==
    op = "create_assessment_target" =>
        LET G == GroupCalls
            T == TargetCalls
        IN  /\ Len(G) <= 1
            /\ Len(T) <= 1
            /\ Len(trace) = Len(G) + Len(T)
            /\ Len(G) = 1 =>
                  /\ trace[1] = G[1]
                  /\ G[1].resourceGroupTags = << [key |-> args.tagkey, value |-> args.tagname] >>
                  /\ ~G[1].ok => (pc = "raised" /\ error # "" /\ Len(T) = 0 /\ resourceGroups = {})
                  /\ G[1].ok => resourceGroups =
                        { [arn |-> G[1].respArn, resourceGroupTags |-> G[1].resourceGroupTags] }
            /\ Len(T) = 1 =>
                  /\ Len(G) = 1
                  /\ G[1].ok
                  /\ T[1].resourceGroupArn = Some(G[1].respArn)
                  /\ T[1].assessmentTargetName = args.targetname
                  /\ ~T[1].ok => (pc = "raised" /\ error # "" /\ result = None
                                  /\ assessmentTargets = {})
                  /\ T[1].ok => (pc = "returned" /\ result = Some(T[1].respArn))
            /\ pc = "returned" => (Len(T) = 1 /\ T[1].ok)
            /\ pc = "raised" => (Len(G) = 1 /\ (~G[1].ok \/ (Len(T) = 1 /\ ~T[1].ok)))

C8_Witness ==
    /\ op = "create_assessment_target"
    /\ pc = "raised"
    /\ Len(TargetCalls) = 1
    /\ Cardinality(resourceGroups) = 1
    /\ assessmentTargets = {}

\* the ids among fs that match the CVE pattern, in order
CveIdsOf(fs) ==
    LET matching == SelectSeq(fs, LAMBDA f : CveMatch(f.id))
    IN  [k \in 1..Len(matching) |-> matching[k].id]

\* the position of the first list-findings call after position i, or one past
\* the end of the trace
NextListAfter(i) ==
    LET later == { j \in (i + 1)..Len(trace) : trace[j].call = "list_findings" }
    IN  IF later = {} THEN Len(trace) + 1
        ELSE CHOOSE j \in later : \A m \in later : j <= m

\* C9: the remote calls of one pull_list_finding are sequential page by page:
\* list call k is followed by exactly one describe-findings call with locale
\* EN_US and the ARNs of that page, then by one feed fetch per described
\* finding whose id matches the CVE pattern, in finding order and none for
\* the others, all before list call k+1.
C9_SequentialPerPage ==
    Harvesting =>
        /\ Len(trace) >= 1 => trace[1].call = "list_findings"
        /\ \A i \in 1..Len(trace) :
              LET e == trace[i]
              IN  /\ (e.call = "list_findings" /\ i < Len(trace)) =>
                        /\ e.ok
                        /\ trace[i + 1].call = "describe_findings"
                        /\ trace[i + 1].locale = "EN_US"
                        /\ trace[i + 1].findingArns = e.respArns
                  /\ e.call = "describe_findings" =>
                        /\ i > 1
                        /\ trace[i - 1].call = "list_findings"
                        /\ i < Len(trace) => e.ok
                  /\ (e.call = "describe_findings" /\ e.ok) =>
                        LET n == NextListAfter(i)
                            gets == SubSeq(trace, i + 1, n - 1)
                            ids == CveIdsOf(e.respFindings)
                        IN  /\ Len(gets) <= Len(ids)
                            /\ \A k \in 1..Len(gets) :
                                  /\ gets[k].call = "requests.get"
                                  /\ gets[k].url = <<SEARCHURL, ids[k]>>
                            /\ (n <= Len(trace) \/ PullReturned) => Len(gets) = Len(ids)

C9_Witness ==
    /\ PullReturned
    /\ Len(ListEvents) = 2
    /\ Len(trace) = 6
    /\ trace[3].call = "requests.get"
    /\ trace[4].call = "list_findings"
    /\ trace[6].call = "requests.get"
    /\ Len(data) = 4

\* C10: genearte_report touches the report file only after pull_list_finding
\* has returned: when a list-findings or describe-findings call fails the
\* error reaches the caller and the file is as it was; when the harvest
\* succeeds the file is written once and holds the harvested records in
\* harvest order (an empty array for no records).
C10_FileWrittenAfterHarvest ==
    op = "genearte_report" =>
        /\ pc # "returned" =>
              /\ file = fileAtCall
              /\ fileLog = << >>
        /\ pc = "raised" => error # ""
        /\ pc = "returned" =>
              LET described == Described
              IN  /\ fileLog = <<"open", "dump", "close">>
                  /\ error = ""
                  /\ file # None
                  /\ file[1].type = "array"
                  /\ Len(file[1].items) = Len(described)
                  /\ json_load(file[1]) = data
                  /\ \A i \in 1..Len(described) :
                        file[1].items[i].members[1] = <<"id", JString(described[i].id)>>

C10_Witness ==
    /\ op = "genearte_report"
    /\ pc = "raised"
    /\ error = "ClientError"
    /\ Len(ListEvents) = 2
    /\ Len(data) >= 1
    /\ file = Some(OldDocument)

====
